---- MODULE Spec2Model ----
(***************************************************************************)
(* Target-size media compression of mtool: the four click commands         *)
(*   mtool image compress by-percent | to-size   (mtool/image/compress.py) *)
(*   mtool video compress by-percent | to-size   (mtool/video/compress.py) *)
(* modelled as one state machine over a small file system.                 *)
(*                                                                         *)
(* Storage is a map from the four paths a command touches to a size in     *)
(* bytes (Absent when no file is there).  The encoders (PIL's Image.save,  *)
(* ffmpeg) and the probes (os.path.getsize, ffprobe) are the environment:  *)
(* each call draws its result from a bounded set.  os.rename has POSIX     *)
(* semantics (setup.py declares "Operating System :: POSIX :: Linux").     *)
(*                                                                         *)
(* target_size is a Python float; the model keeps it exactly, in           *)
(* hundredths of a byte (Scale), and the reductions it enumerates are      *)
(* those whose factor 1 - reduction/100 is exact in binary floating point. *)
(***************************************************************************)
EXTENDS Integers, FiniteSets, Sequences, TLC

\* ------------------------------------------------------------------ bounds
\* Sizes of files, in units of the command's size unit (KB or MB).
MaxSize == 3
\* Largest to-size argument (target_size_kb / target_size_mb).
MaxTarget == 2
\* --max-iterations ranges over MinCap..SmallCap and the command's default.
SmallCap == 2
MinCap == 0 - 1

\* ------------------------------------------------------- program constants
KB == 1024
MB == 1048576
Scale == 100
InitialQuality == 95
QualityFloor == 5

Absent == 0 - 1
NoValue == 0 - 1

Paths == {"file", "output", "temp", "temp_jpg"}
ImageFormats == {"jpg", "png", "webp", "other"}
Formats == ImageFormats \cup {"video"}
Modes == {"by-percent", "to-size"}
Reductions == {25, 50}

MediaOf(f) == IF f = "video" THEN "video" ELSE "image"

\* target_size_kb * 1024 and target_size_mb * 1024 * 1024
Unit(m) == IF m = "video" THEN MB ELSE KB

\* default of --max-iterations of each command
DefaultCap(m, md) ==
    IF m = "image"
    THEN (IF md = "by-percent" THEN 10 ELSE 15)
    ELSE (IF md = "by-percent" THEN 8 ELSE 10)

Caps(m, md) == (MinCap .. SmallCap) \cup {DefaultCap(m, md)}

\* (variant: one step for both commands)
QualityStepSame(md) == 10

\* quality = max(5, quality - 10) / max(5, quality - 8)
QualityStep(md) == IF md = "by-percent" THEN 10 ELSE 8

Max(a, b) == IF a >= b THEN a ELSE b

\* (variant: no floor)
NextQualityUnfloored(q, md) == q - QualityStep(md)

NextQuality(q, md) == Max(QualityFloor, q - QualityStep(md))

\* if quality < 50 / if quality < 30: the PNG branch resizes instead of saving
PngFloor(md) == IF md = "by-percent" THEN 50 ELSE 30

\* (variant: the bit rate is not decayed)
DecayBitrateNone(b, md) == b

\* int(current_bitrate * 0.8) / int(current_bitrate * 0.75)
DecayBitrate(b, md) == IF md = "by-percent" THEN (b * 4) \div 5 ELSE (b * 3) \div 4

RECURSIVE GCD(_, _)
GCD(a, b) == IF b = 0 THEN a ELSE GCD(b, a % b)

\* int(current_bitrate * (target_size / original_size)), target in 1/Scale bytes;
\* the ratio is reduced first so that the product stays within TLC's integers
TargetBitrate(b, target, orig) ==
    LET g == GCD(target, orig * Scale)
    IN  (b * (target \div g)) \div ((orig * Scale) \div g)

\* original_size * (1 - reduction / 100), in 1/Scale bytes
PercentTarget(orig, red) == orig * (Scale - red)

\* target_size_kb * 1024 (target_size_mb * 1024 * 1024), in 1/Scale bytes
AbsoluteTarget(m, units) == units * Unit(m) * Scale

\* (variant: the comparison written with <)
TargetMetStrict(size, target) == size * Scale < target

\* current_size <= target_size
TargetMet(size, target) == size * Scale <= target

\* (variants: the early return missing; the comparison written with <)
NeverSmaller(orig, target) == FALSE
AlreadySmallerStrict(orig, target) == orig * Scale < target

\* if original_size <= target_size: ... return     (to-size only)
AlreadySmaller(orig, target) == orig * Scale <= target

\* int(img.width * math.sqrt(target_size / current_size))
ScaleDim(d, target, cur) ==
    CHOOSE n \in 0 .. d :
        /\ n * n * cur * Scale <= d * d * target
        /\ \/ n = d
           \/ (n + 1) * (n + 1) * cur * Scale > d * d * target

\* ------------------------------------------------------------ file system
Exists(f, p) == f[p] # Absent

\* (variant: the candidate copied to dst instead of moved)
CopyFile(f, src, dst) == [f EXCEPT ![dst] = f[src]]

\* os.rename(src, dst) on POSIX: dst is replaced, src disappears
Rename(f, src, dst) ==
    IF src = dst THEN f ELSE [f EXCEPT ![dst] = f[src], ![src] = Absent]

\* os.remove(path)
Remove(f, p) == [f EXCEPT ![p] = Absent]

\* a file written in full by an encoder
WriteFile(f, p, size) == [f EXCEPT ![p] = size]

\* (variant: the share that is left, not the share that was removed)
RemainingShare(orig, final) ==
    LET g == GCD(final, orig)
    IN  ((final \div g) * 2000 + (orig \div g)) \div (2 * (orig \div g))

\* ((original_size - final_size) / original_size) * 100 as "{:.1f}" prints it:
\* tenths of a percent, rounded to the nearest (the fraction is reduced first)
ActualReduction(orig, final) ==
    LET d == orig - final
        a == IF d < 0 THEN 0 - d ELSE d
        g == GCD(a, orig)
    IN  ((d \div g) * 2000 + (orig \div g)) \div (2 * (orig \div g))

\* (variant: a size that cannot be read counts as too large)
get_video_size_large(f, p) == IF Exists(f, p) THEN f[p] ELSE (MaxSize + 1) * MB

\* os.path.getsize wrapped in try/except: 0 on any failure
get_video_size(f, p) == IF Exists(f, p) THEN f[p] ELSE 0

VARIABLES
    fs,              \* storage: path -> size in bytes, or Absent
    fmt,             \* what the source file is: an image format, or "video"
    readable,        \* whether the source can be stat'ed and opened
    img_size,        \* <<width, height>> of the opened image
    enc_sizes,       \* sizes of the files the encoder can write
    pc,              \* position in the command
    mode,            \* "by-percent" or "to-size"
    reduction,       \* by-percent argument
    target_units,    \* to-size argument (KB or MB)
    output,          \* "none" (overwrite the source) or "output"
    max_iterations,
    video_info,      \* what ffprobe will answer
    original_size, target_size, current_size,
    quality, current_bitrate, target_bitrate, iterations,
    temp_path,       \* "unset" until the loop body assigns it
    video_stream,    \* index of the stream selected, 0 for None
    \* ---- what an observer of the run sees
    err,             \* the error message echoed, "none" if none
    warned,          \* the "Warning: Could not achieve target size" line
    noop_msg,        \* the "File is already smaller than target size" line
    final_size,      \* the "Final size" line, NoValue if not printed
    actual_reduction, \* the "Actual reduction" line, in tenths of a percent
    committed,       \* "none", "success" (rename in the loop), "cap" (after it)
    exit_status,     \* NoValue while running
    codec_calls,     \* encoder invocations (Image.save, ffmpeg)
    probe_calls,     \* ffprobe invocations
    dest_writes,     \* writes to the destination path
    created,         \* temporary paths this run's encoder has written
    fs0,             \* storage when the command was invoked
    runs,            \* commands invoked so far
    prev,            \* the previous command's commit, for a re-run on its result
    \* ---- two commands running at the same time
    c_src,           \* request -> the source file it was given
    c_pc,            \* request -> its position in the loop
    c_iter,          \* request -> its iterations
    c_cur,           \* request -> its current_size
    c_fs,            \* storage both requests work on: path -> size or Absent
    c_by,            \* path -> the request that wrote the file (0: neither)
    c_hit            \* what a request has done to a candidate of the other

concVars == <<c_src, c_pc, c_iter, c_cur, c_fs, c_by, c_hit>>
envVars == <<fmt, readable, img_size, enc_sizes, concVars>>
reqVars == <<mode, reduction, target_units, output, max_iterations, video_info>>
locVars == <<original_size, target_size, current_size, quality, current_bitrate,
             target_bitrate, iterations, temp_path, video_stream>>
obsVars == <<err, warned, noop_msg, final_size, actual_reduction, committed,
             exit_status, codec_calls, probe_calls, dest_writes, created>>
histVars == <<fs0, runs, prev>>
vars == <<fs, pc, envVars, reqVars, locVars, obsVars, histVars>>

media == MediaOf(fmt)

\* (variant: the source is always the destination)
out_path_source == "file"

\* out_path = output or file
out_path == IF output = "none" THEN "file" ELSE "output"

\* sizes of the files an encoder writes when it succeeds: an encoded image or
\* video carries at least its container header, so it is never empty
ImageSizes == {n * KB : n \in 1 .. MaxSize}
VideoSizes == {n * MB : n \in 1 .. MaxSize}
\* sizes of the source: click checks that it exists, a video may be empty
SourceSizes(f) == IF f = "video" THEN VideoSizes \cup {0} ELSE ImageSizes

\* bit rates format.bit_rate can carry: none (0), a few bits per second, a
\* usual one
LowBitrate == 4
UsualBitrate == 8000000

\* (variant: the last stream of type "video")
LastVideo(streams) ==
    IF \E i \in DOMAIN streams : streams[i] = "video"
    THEN CHOOSE i \in DOMAIN streams :
             /\ streams[i] = "video"
             /\ \A j \in DOMAIN streams : streams[j] = "video" => j <= i
    ELSE 0

\* for stream in streams: if stream.get('codec_type') == 'video': break
\* (the index of the stream kept, 0 for None)
FirstVideo(streams) ==
    IF \E i \in DOMAIN streams : streams[i] = "video"
    THEN CHOOSE i \in DOMAIN streams :
             /\ streams[i] = "video"
             /\ \A j \in DOMAIN streams : streams[j] = "video" => i <= j
    ELSE 0

\* ffprobe's answer: the codec_type of each stream, format.bit_rate and
\* format.duration (0 and NoValue: the key is missing)
Info(n, s, b, d) ==
    [none |-> n, has_video |-> FirstVideo(s) # 0, streams |-> s,
     bit_rate |-> b, duration |-> d]

\* get_video_info returned None
NoInfo == Info(TRUE, <<>>, 0, NoValue)

\* the answers the commands are run with; the duration matters only when
\* there is no bit rate
VideoInfos ==
    {NoInfo}
    \cup {Info(FALSE, s, UsualBitrate, 2) : s \in {<<>>, <<"audio">>}}
    \cup {Info(FALSE, <<"video">>, 0, d) : d \in {NoValue, 0, 2}}
    \cup {Info(FALSE, <<"audio", "video">>, LowBitrate, 2)}
    \cup {Info(FALSE, s, UsualBitrate, 2) :
             s \in {<<"video", "audio">>, <<"audio", "video", "video">>}}

NoPrev == [valid |-> FALSE, size |-> 0, units |-> 0]

\* a command returning (click then exits with status 0)
ExitStatus == 0

\* the two requests of the concurrent setting, the files they can be given,
\* and every path they touch
Reqs == {1, 2}

Sources == {"a", "b"}

CPaths == {"a", "b", "a.temp", "b.temp", "out1", "out2"}

\* temp_path = f"{file}.temp" (temp_output = f"{file}.temp{ext}"): the
\* temporary path is made from the source path and nothing else
TempOf(src) == IF src = "a" THEN "a.temp" ELSE "b.temp"

\* each request is given an --output of its own
OutOf(r) == IF r = 1 THEN "out1" ELSE "out2"

\* no request is running
ConcIdle ==
    /\ c_src = [r \in Reqs |-> "a"]
    /\ c_pc = [r \in Reqs |-> "done"]
    /\ c_iter = [r \in Reqs |-> 0]
    /\ c_cur = [r \in Reqs |-> 0]
    /\ c_fs = [p \in CPaths |-> Absent]
    /\ c_by = [p \in CPaths |-> Absent]
    /\ c_hit = {}

Fresh ==
    /\ original_size = 0 /\ target_size = 0 /\ current_size = 0
    /\ quality = 0 /\ current_bitrate = 0 /\ target_bitrate = 0 /\ iterations = 0
    /\ temp_path = "unset" /\ video_stream = 0
    /\ err = "none" /\ warned = FALSE /\ noop_msg = FALSE /\ final_size = NoValue
    /\ actual_reduction = 0 /\ committed = "none" /\ exit_status = NoValue
    /\ codec_calls = 0 /\ probe_calls = 0 /\ dest_writes = 0 /\ created = {}

Init ==
    /\ fmt \in Formats
    /\ readable \in BOOLEAN
    /\ img_size \in (IF fmt = "png" THEN {<<1, 1>>, <<4, 3>>} ELSE {<<4, 3>>})
    /\ enc_sizes = (IF fmt = "video" THEN VideoSizes ELSE ImageSizes)
    /\ \E s \in SourceSizes(fmt), o \in {Absent, Unit(fmt)}, t \in {Absent, Unit(fmt)} :
          fs = [p \in Paths |->
                  CASE p = "file" -> s
                    [] p = "output" -> o
                    [] p = "temp" -> t
                    [] OTHER -> Absent]
    /\ pc = "idle"
    /\ mode = "by-percent" /\ reduction = 0 /\ target_units = 0
    /\ output = "none" /\ max_iterations = 0 /\ video_info = NoInfo
    /\ Fresh
    /\ fs0 = fs /\ runs = 0 /\ prev = NoPrev
    /\ ConcIdle

\* ------------------------------------------------------------- invocation
\* click parses the arguments (IntRange(1, 99), IntRange(1), Path(exists=True))
\* and calls the command.
Invoke ==
    /\ pc = "idle" /\ runs = 0
    /\ Exists(fs, "file")
    /\ mode' \in Modes
    /\ \/ mode' = "by-percent" /\ reduction' \in Reductions /\ target_units' = 0
       \/ mode' = "to-size" /\ reduction' = 0 /\ target_units' \in 1 .. MaxTarget
    /\ output' \in {"none", "output"}
    /\ max_iterations' \in Caps(media, mode')
    /\ video_info' \in (IF media = "video" THEN VideoInfos ELSE {NoInfo})
    /\ pc' = "start"
    /\ runs' = 1
    /\ fs0' = fs
    /\ UNCHANGED <<fs, envVars, locVars, obsVars, prev>>

\* The same to-size command is invoked again on the artifact the previous
\* run committed: that artifact is now the command's file, nothing is at
\* the new run's temporary paths and the source is overwritten.
InvokeAgain ==
    /\ pc = "done" /\ runs = 1
    /\ mode = "to-size"
    /\ committed # "none"
    /\ prev' = [valid |-> TRUE, size |-> fs[out_path], units |-> target_units]
    /\ fs' = [p \in Paths |-> IF p = "file" THEN fs[out_path] ELSE Absent]
    /\ fs0' = fs'
    /\ output' = "none"
    /\ runs' = 2
    /\ pc' = "start"
    /\ original_size' = 0 /\ target_size' = 0 /\ current_size' = 0
    /\ quality' = 0 /\ current_bitrate' = 0 /\ target_bitrate' = 0
    /\ iterations' = 0 /\ temp_path' = "unset" /\ video_stream' = 0
    /\ err' = "none" /\ warned' = FALSE /\ noop_msg' = FALSE
    /\ final_size' = NoValue /\ actual_reduction' = 0
    /\ committed' = "none" /\ exit_status' = NoValue
    /\ codec_calls' = 0 /\ probe_calls' = 0 /\ dest_writes' = 0 /\ created' = {}
    /\ UNCHANGED <<envVars, mode, reduction, target_units, max_iterations,
                   video_info>>

\* the except-handler of a command: echo the error and return; kind names
\* the statement that raised
Raise(kind) ==
    /\ err' = kind
    /\ exit_status' = ExitStatus
    /\ pc' = "done"

\* ------------------------------------------------------------------ image
\* os.path.getsize(file) or Image.open(file) raises
ImgSourceUnreadable ==
    /\ pc = "start" /\ media = "image"
    /\ ~readable
    /\ Raise("SourceUnreadable")
    /\ UNCHANGED <<fs, envVars, reqVars, locVars, histVars, warned, noop_msg,
                   final_size, actual_reduction, committed, codec_calls,
                   probe_calls, dest_writes, created>>

ImgTarget == IF mode = "by-percent"
             THEN PercentTarget(fs["file"], reduction)
             ELSE AbsoluteTarget("image", target_units)

\* to-size: the file is already smaller than the target
ImgNoOp ==
    /\ pc = "start" /\ media = "image"
    /\ readable
    /\ mode = "to-size"
    /\ AlreadySmaller(fs["file"], ImgTarget)
    /\ original_size' = fs["file"]
    /\ target_size' = ImgTarget
    /\ noop_msg' = TRUE
    /\ exit_status' = ExitStatus
    /\ pc' = "done"
    /\ UNCHANGED <<fs, envVars, reqVars, histVars, current_size, quality,
                   current_bitrate, target_bitrate, iterations, temp_path, err,
                   warned, final_size, actual_reduction, committed,
                   codec_calls, probe_calls, dest_writes, created,
                   video_stream>>

\* sizes are read, the image is opened, the loop variables are set
ImgStart ==
    /\ pc = "start" /\ media = "image"
    /\ readable
    /\ mode = "to-size" => ~AlreadySmaller(fs["file"], ImgTarget)
    /\ original_size' = fs["file"]
    /\ target_size' = ImgTarget
    /\ quality' = InitialQuality
    /\ current_size' = fs["file"]
    /\ iterations' = 0
    /\ pc' = "loop"
    /\ UNCHANGED <<fs, envVars, reqVars, histVars, obsVars, current_bitrate,
                   target_bitrate, temp_path, video_stream>>

\* while current_size > target_size and iterations < max_iterations
ImgLoopCond == ~TargetMet(current_size, target_size) /\ iterations < max_iterations

ImgLoopExit ==
    /\ pc = "loop" /\ media = "image"
    /\ ~ImgLoopCond
    /\ pc' = "after"
    /\ UNCHANGED <<fs, envVars, reqVars, locVars, obsVars, histVars>>

\* the PNG branch that resizes instead of saving
IsDownscale == fmt = "png" /\ quality < PngFloor(mode)

\* temp_path of an iteration that saves: f"{file}.temp", or that with the
\* extension replaced by .jpg (PNG and the formats converted to JPEG)
SaveTempPath == IF fmt \in {"jpg", "webp"} THEN "temp" ELSE "temp_jpg"

\* img.save(temp_path, ...) writes the candidate
ImgEncode ==
    /\ pc = "loop" /\ media = "image"
    /\ ImgLoopCond
    /\ ~IsDownscale
    /\ temp_path' = SaveTempPath
    /\ \E s \in enc_sizes : fs' = WriteFile(fs, SaveTempPath, s)
    /\ codec_calls' = codec_calls + 1
    /\ created' = created \cup {SaveTempPath}
    /\ pc' = "measure"
    /\ UNCHANGED <<envVars, reqVars, histVars, original_size, target_size,
                   current_size, quality, current_bitrate, target_bitrate,
                   iterations, err, warned, noop_msg, final_size,
                   actual_reduction, committed, exit_status, probe_calls,
                   dest_writes, video_stream>>

\* img.save raises; what it had written of the file may stay behind
ImgEncodeFailed ==
    /\ pc = "loop" /\ media = "image"
    /\ ImgLoopCond
    /\ ~IsDownscale
    /\ temp_path' = SaveTempPath
    /\ \/ fs' = fs /\ created' = created
       \/ /\ \E s \in enc_sizes : fs' = WriteFile(fs, SaveTempPath, s)
          /\ created' = created \cup {SaveTempPath}
    /\ codec_calls' = codec_calls + 1
    /\ Raise("EncodeFailed")
    /\ UNCHANGED <<envVars, reqVars, histVars, original_size, target_size,
                   current_size, quality, current_bitrate, target_bitrate,
                   iterations, warned, noop_msg, final_size, actual_reduction,
                   committed, probe_calls, dest_writes, video_stream>>

\* (new_width, new_height) of the PNG branch
NewSize == <<ScaleDim(img_size[1], target_size, current_size),
             ScaleDim(img_size[2], target_size, current_size)>>

\* PNG with quality below the floor: resize, reset quality, save nothing
PngDownscale ==
    /\ pc = "loop" /\ media = "image"
    /\ ImgLoopCond
    /\ IsDownscale
    /\ NewSize[1] > 0 /\ NewSize[2] > 0
    /\ temp_path' = "temp"
    /\ img_size' = NewSize
    /\ quality' = InitialQuality
    /\ pc' = "measure"
    /\ UNCHANGED <<fs, fmt, readable, enc_sizes, concVars, reqVars, histVars,
                   obsVars, original_size, target_size, current_size,
                   current_bitrate, target_bitrate, iterations, video_stream>>

\* img.resize raises ValueError: a side of the new size is 0
PngDownscaleFailed ==
    /\ pc = "loop" /\ media = "image"
    /\ ImgLoopCond
    /\ IsDownscale
    /\ NewSize[1] = 0 \/ NewSize[2] = 0
    /\ temp_path' = "temp"
    /\ Raise("ResizeFailed")
    /\ UNCHANGED <<fs, envVars, reqVars, histVars, original_size, target_size,
                   current_size, quality, current_bitrate, target_bitrate,
                   iterations, warned, noop_msg, final_size, actual_reduction,
                   committed, codec_calls, probe_calls, dest_writes, created,
                   video_stream>>

\* current_size = os.path.getsize(temp_path) raises: nothing is at temp_path
ImgMeasureFailed ==
    /\ pc = "measure" /\ media = "image"
    /\ ~Exists(fs, temp_path)
    /\ Raise("NoCandidate")
    /\ UNCHANGED <<fs, envVars, reqVars, locVars, histVars, warned, noop_msg,
                   final_size, actual_reduction, committed, codec_calls,
                   probe_calls, dest_writes, created>>

\* current_size <= target_size: os.rename(temp_path, out_path); break
ImgCommit ==
    /\ pc = "measure" /\ media = "image"
    /\ Exists(fs, temp_path)
    /\ TargetMet(fs[temp_path], target_size)
    /\ current_size' = fs[temp_path]
    /\ fs' = Rename(fs, temp_path, out_path)
    /\ dest_writes' = dest_writes + 1
    /\ committed' = "success"
    /\ pc' = "after"
    /\ UNCHANGED <<envVars, reqVars, histVars, original_size, target_size,
                   quality, current_bitrate, target_bitrate, iterations,
                   temp_path, err, warned, noop_msg, final_size,
                   actual_reduction, exit_status, codec_calls, probe_calls,
                   created, video_stream>>

\* (variant: the rejected candidate is left where it is)
RejectedFsKept(f, p) == f

\* the candidate is too large: remove it, lower the quality, count the iteration
RejectedFs(f, p) == Remove(f, p)

ImgReject ==
    /\ pc = "measure" /\ media = "image"
    /\ Exists(fs, temp_path)
    /\ ~TargetMet(fs[temp_path], target_size)
    /\ current_size' = fs[temp_path]
    /\ fs' = RejectedFs(fs, temp_path)
    /\ quality' = NextQuality(quality, mode)
    /\ iterations' = iterations + 1
    /\ pc' = "loop"
    /\ UNCHANGED <<envVars, reqVars, histVars, obsVars, original_size,
                   target_size, current_bitrate, target_bitrate, temp_path,
                   video_stream>>


\* after the loop, the target is met (the loop ended in break)
ImgAfterLoop ==
    /\ pc = "after" /\ media = "image"
    /\ TargetMet(current_size, target_size)
    /\ pc' = "report"
    /\ UNCHANGED <<fs, envVars, reqVars, locVars, obsVars, histVars>>

\* if current_size > target_size: warn, and rename temp_path if it exists
ImgCapWarn ==
    /\ pc = "after" /\ media = "image"
    /\ ~TargetMet(current_size, target_size)
    /\ temp_path # "unset"
    /\ warned' = TRUE
    /\ IF Exists(fs, temp_path)
       THEN /\ fs' = Rename(fs, temp_path, out_path)
            /\ dest_writes' = dest_writes + 1
            /\ committed' = "cap"
       ELSE UNCHANGED <<fs, dest_writes, committed, video_stream>>
    /\ pc' = "report"
    /\ UNCHANGED <<envVars, reqVars, locVars, histVars, err, noop_msg,
                   final_size, actual_reduction, exit_status, codec_calls,
                   probe_calls, created>>

\* the loop body never ran: os.path.exists(temp_path) raises NameError
ImgCapUnbound ==
    /\ pc = "after" /\ media = "image"
    /\ ~TargetMet(current_size, target_size)
    /\ temp_path = "unset"
    /\ warned' = TRUE
    /\ Raise("Unbound")
    /\ UNCHANGED <<fs, envVars, reqVars, locVars, histVars, noop_msg,
                   final_size, actual_reduction, committed, codec_calls,
                   probe_calls, dest_writes, created>>

\* final_size = os.path.getsize(output or file); the final lines are echoed
ImgReport ==
    /\ pc = "report" /\ media = "image"
    /\ Exists(fs, out_path)
    /\ final_size' = fs[out_path]
    /\ actual_reduction' = (IF mode = "by-percent"
                            THEN ActualReduction(original_size, fs[out_path])
                            ELSE actual_reduction)
    /\ exit_status' = ExitStatus
    /\ pc' = "done"
    /\ UNCHANGED <<fs, envVars, reqVars, locVars, histVars, err, warned,
                   noop_msg, committed, codec_calls, probe_calls, dest_writes,
                   created>>

\* os.path.getsize(output or file) raises: nothing is at the output path
ImgReportFailed ==
    /\ pc = "report" /\ media = "image"
    /\ ~Exists(fs, out_path)
    /\ Raise("NoOutput")
    /\ UNCHANGED <<fs, envVars, reqVars, locVars, histVars, warned, noop_msg,
                   final_size, actual_reduction, committed, codec_calls,
                   probe_calls, dest_writes, created>>

\* ------------------------------------------------------------------ video
\* (variant: an unreadable source is taken to have some size)
VidOriginalSizeGuess == IF readable THEN get_video_size(fs, "file") ELSE MB

\* original_size = get_video_size(file), 0 for an unreadable source
VidOriginalSize == IF readable THEN get_video_size(fs, "file") ELSE 0

VidTarget == IF mode = "by-percent"
             THEN PercentTarget(VidOriginalSize, reduction)
             ELSE AbsoluteTarget("video", target_units)

\* if original_size == 0: "Error: Could not read file size"; return
VidSourceUnreadable ==
    /\ pc = "start" /\ media = "video"
    /\ VidOriginalSize = 0
    /\ err' = "SourceUnreadable"
    /\ exit_status' = ExitStatus
    /\ pc' = "done"
    /\ UNCHANGED <<fs, envVars, reqVars, locVars, histVars, warned, noop_msg,
                   final_size, actual_reduction, committed, codec_calls,
                   probe_calls, dest_writes, created>>

\* if original_size <= target_size: "File is already smaller ..."; return
VidNoOpGuard == mode = "to-size" /\ AlreadySmaller(VidOriginalSize, VidTarget)

VidNoOp ==
    /\ pc = "start" /\ media = "video"
    /\ VidOriginalSize # 0
    /\ VidNoOpGuard
    /\ original_size' = VidOriginalSize
    /\ target_size' = VidTarget
    /\ noop_msg' = TRUE
    /\ exit_status' = ExitStatus
    /\ pc' = "done"
    /\ UNCHANGED <<fs, envVars, reqVars, histVars, current_size, quality,
                   current_bitrate, target_bitrate, iterations, temp_path, err,
                   warned, final_size, actual_reduction, committed,
                   codec_calls, probe_calls, dest_writes, created,
                   video_stream>>

VidStart ==
    /\ pc = "start" /\ media = "video"
    /\ VidOriginalSize # 0
    /\ ~VidNoOpGuard
    /\ original_size' = VidOriginalSize
    /\ target_size' = VidTarget
    /\ pc' = "probe"
    /\ UNCHANGED <<fs, envVars, reqVars, histVars, obsVars, current_size,
                   quality, current_bitrate, target_bitrate, iterations,
                   temp_path, video_stream>>

\* get_video_info returned None: "Error: Could not read video information"
VidNoInfo ==
    /\ pc = "probe" /\ media = "video"
    /\ video_info.none
    /\ probe_calls' = probe_calls + 1
    /\ err' = "NoVideoInfo"
    /\ exit_status' = ExitStatus
    /\ pc' = "done"
    /\ UNCHANGED <<fs, envVars, reqVars, locVars, histVars, warned, noop_msg,
                   final_size, actual_reduction, committed, codec_calls,
                   dest_writes, created>>

\* no stream of codec_type "video": "Error: No video stream found"
VidNoStream ==
    /\ pc = "probe" /\ media = "video"
    /\ ~video_info.none /\ FirstVideo(video_info.streams) = 0
    /\ video_stream' = 0
    /\ probe_calls' = probe_calls + 1
    /\ err' = "NoVideoStream"
    /\ exit_status' = ExitStatus
    /\ pc' = "done"
    /\ UNCHANGED <<fs, envVars, reqVars, original_size, target_size,
                   current_size, quality, current_bitrate, target_bitrate,
                   iterations, temp_path, histVars, warned, noop_msg,
                   final_size, actual_reduction, committed, codec_calls,
                   dest_writes, created>>

\* (variant: no estimate when the bit rate is missing)
OriginalBitrateNoEstimate(info, orig) == info.bit_rate

\* original_bitrate: format.bit_rate, or size * 8 / duration (duration 1 if missing)
OriginalBitrate(info, orig) ==
    IF info.bit_rate # 0
    THEN info.bit_rate
    ELSE (orig * 8) \div (IF info.duration = NoValue THEN 1 ELSE info.duration)

\* (original_size * 8) / duration divides by zero
BitrateUndefined(info) == info.bit_rate = 0 /\ info.duration = 0

\* the estimate raises ZeroDivisionError: the duration is 0
VidProbeFailed ==
    /\ pc = "probe" /\ media = "video"
    /\ ~video_info.none /\ FirstVideo(video_info.streams) # 0
    /\ video_stream' = FirstVideo(video_info.streams)
    /\ BitrateUndefined(video_info)
    /\ probe_calls' = probe_calls + 1
    /\ Raise("BitrateError")
    /\ UNCHANGED <<fs, envVars, reqVars, original_size, target_size,
                   current_size, quality, current_bitrate, target_bitrate,
                   iterations, temp_path, histVars, warned, noop_msg,
                   final_size, actual_reduction, committed, codec_calls,
                   dest_writes, created>>

VidProbe ==
    /\ pc = "probe" /\ media = "video"
    /\ ~video_info.none /\ FirstVideo(video_info.streams) # 0
    /\ video_stream' = FirstVideo(video_info.streams)
    /\ ~BitrateUndefined(video_info)
    /\ probe_calls' = probe_calls + 1
    /\ current_bitrate' = OriginalBitrate(video_info, original_size)
    /\ iterations' = 0
    /\ pc' = "loop"
    /\ UNCHANGED <<fs, envVars, reqVars, histVars, original_size, target_size,
                   current_size, quality, target_bitrate, temp_path, err,
                   warned, noop_msg, final_size, actual_reduction, committed,
                   exit_status, codec_calls, dest_writes, created>>

\* (variant: one iteration more than the cap)
VidLoopCondLate == iterations <= max_iterations

\* while iterations < max_iterations
VidLoopCond == iterations < max_iterations

VidLoopExit ==
    /\ pc = "loop" /\ media = "video"
    /\ ~VidLoopCond
    /\ pc' = "after"
    /\ UNCHANGED <<fs, envVars, reqVars, locVars, obsVars, histVars>>

\* if target_bitrate: cmd.extend(['-b:v', f'{target_bitrate}k'])
BitrateFlag(tb) == tb # 0

\* compress_video_ffmpeg returned True: the candidate is at temp_output
VidEncode ==
    /\ pc = "loop" /\ media = "video"
    /\ VidLoopCond
    /\ temp_path' = "temp"
    /\ target_bitrate' = TargetBitrate(current_bitrate, target_size, original_size)
    /\ \E s \in enc_sizes : fs' = WriteFile(fs, "temp", s)
    /\ codec_calls' = codec_calls + 1
    /\ created' = created \cup {"temp"}
    /\ pc' = "measure"
    /\ UNCHANGED <<envVars, reqVars, histVars, original_size, target_size,
                   current_size, quality, current_bitrate, iterations, err,
                   warned, noop_msg, final_size, actual_reduction, committed,
                   exit_status, probe_calls, dest_writes, video_stream>>

\* compress_video_ffmpeg returned True but the candidate is gone before it is
\* measured (the temporary path is derived from the source path alone, so
\* another command on the same source removes it)
VidEncodeVanished ==
    /\ pc = "loop" /\ media = "video"
    /\ VidLoopCond
    /\ temp_path' = "temp"
    /\ target_bitrate' = TargetBitrate(current_bitrate, target_size, original_size)
    /\ fs' = Remove(fs, "temp")
    /\ codec_calls' = codec_calls + 1
    /\ pc' = "measure"
    /\ UNCHANGED <<envVars, reqVars, histVars, original_size, target_size,
                   current_size, quality, current_bitrate, iterations, err,
                   warned, noop_msg, final_size, actual_reduction, committed,
                   exit_status, probe_calls, dest_writes, created,
                   video_stream>>

\* (variant: continue instead of break)
RetryAfterEncodeFailure == "loop"

\* where the loop goes when compress_video_ffmpeg returned False: break
AfterEncodeFailure == "after"

\* compress_video_ffmpeg returned False: "Error: FFmpeg compression failed"
VidEncodeFailed ==
    /\ pc = "loop" /\ media = "video"
    /\ VidLoopCond
    /\ temp_path' = "temp"
    /\ target_bitrate' = TargetBitrate(current_bitrate, target_size, original_size)
    /\ \/ fs' = fs /\ created' = created
       \/ /\ \E s \in enc_sizes : fs' = WriteFile(fs, "temp", s)
          /\ created' = created \cup {"temp"}
    /\ codec_calls' = codec_calls + 1
    /\ err' = "EncodeFailed"
    /\ pc' = AfterEncodeFailure
    /\ UNCHANGED <<envVars, reqVars, histVars, original_size, target_size,
                   current_size, quality, current_bitrate, iterations, warned,
                   noop_msg, final_size, actual_reduction, committed,
                   exit_status, probe_calls, dest_writes, video_stream>>

\* current_size <= target_size: os.rename(temp_output, out_path); break
VidCommit ==
    /\ pc = "measure" /\ media = "video"
    /\ TargetMet(get_video_size(fs, "temp"), target_size)
    /\ Exists(fs, "temp")
    /\ current_size' = get_video_size(fs, "temp")
    /\ fs' = Rename(fs, "temp", out_path)
    /\ dest_writes' = dest_writes + 1
    /\ committed' = "success"
    /\ pc' = "after"
    /\ UNCHANGED <<envVars, reqVars, histVars, original_size, target_size,
                   quality, current_bitrate, target_bitrate, iterations,
                   temp_path, err, warned, noop_msg, final_size,
                   actual_reduction, exit_status, codec_calls, probe_calls,
                   created, video_stream>>

\* the size read as 0, the success branch is taken and os.rename raises
VidCommitFailed ==
    /\ pc = "measure" /\ media = "video"
    /\ TargetMet(get_video_size(fs, "temp"), target_size)
    /\ ~Exists(fs, "temp")
    /\ current_size' = get_video_size(fs, "temp")
    /\ Raise("CandidateLost")
    /\ UNCHANGED <<fs, envVars, reqVars, histVars, original_size, target_size,
                   quality, current_bitrate, target_bitrate, iterations,
                   temp_path, warned, noop_msg, final_size, actual_reduction,
                   committed, codec_calls, probe_calls, dest_writes, created,
                   video_stream>>

\* the candidate is too large: decay the bitrate, count the iteration, remove it
VidReject ==
    /\ pc = "measure" /\ media = "video"
    /\ ~TargetMet(get_video_size(fs, "temp"), target_size)
    /\ current_size' = get_video_size(fs, "temp")
    /\ current_bitrate' = DecayBitrate(current_bitrate, mode)
    /\ iterations' = iterations + 1
    /\ fs' = RejectedFs(fs, "temp")
    /\ pc' = "loop"
    /\ UNCHANGED <<envVars, reqVars, histVars, obsVars, original_size,
                   target_size, quality, target_bitrate, temp_path,
                   video_stream>>

\* (variant: the test one iteration late)
VidCapReachedLate == iterations > max_iterations

\* if iterations >= max_iterations
VidCapReached == iterations >= max_iterations

VidAfterLoop ==
    /\ pc = "after" /\ media = "video"
    /\ ~VidCapReached
    /\ pc' = "report"
    /\ UNCHANGED <<fs, envVars, reqVars, locVars, obsVars, histVars>>

\* warn, and rename temp_output if it exists
VidCapWarn ==
    /\ pc = "after" /\ media = "video"
    /\ VidCapReached
    /\ temp_path # "unset"
    /\ warned' = TRUE
    /\ IF Exists(fs, temp_path)
       THEN /\ fs' = Rename(fs, temp_path, out_path)
            /\ dest_writes' = dest_writes + 1
            /\ committed' = "cap"
       ELSE UNCHANGED <<fs, dest_writes, committed, video_stream>>
    /\ pc' = "report"
    /\ UNCHANGED <<envVars, reqVars, locVars, histVars, err, noop_msg,
                   final_size, actual_reduction, exit_status, codec_calls,
                   probe_calls, created>>

\* the loop body never ran: os.path.exists(temp_output) raises UnboundLocalError
VidCapUnbound ==
    /\ pc = "after" /\ media = "video"
    /\ VidCapReached
    /\ temp_path = "unset"
    /\ warned' = TRUE
    /\ Raise("Unbound")
    /\ UNCHANGED <<fs, envVars, reqVars, locVars, histVars, noop_msg,
                   final_size, actual_reduction, committed, codec_calls,
                   probe_calls, dest_writes, created>>

\* final_size = get_video_size(output or file); the final lines are echoed
VidReport ==
    /\ pc = "report" /\ media = "video"
    /\ final_size' = get_video_size(fs, out_path)
    /\ actual_reduction' =
          (IF mode = "by-percent"
           THEN ActualReduction(original_size, get_video_size(fs, out_path))
           ELSE actual_reduction)
    /\ exit_status' = ExitStatus
    /\ pc' = "done"
    /\ UNCHANGED <<fs, envVars, reqVars, locVars, histVars, err, warned,
                   noop_msg, committed, codec_calls, probe_calls, dest_writes,
                   created>>

\* ------------------------------------------------------------------- runs
Next ==
    \/ Invoke \/ InvokeAgain
    \/ ImgSourceUnreadable \/ ImgNoOp \/ ImgStart
    \/ ImgLoopExit \/ ImgEncode \/ ImgEncodeFailed
    \/ PngDownscale \/ PngDownscaleFailed
    \/ ImgMeasureFailed \/ ImgCommit \/ ImgReject
    \/ ImgAfterLoop \/ ImgCapWarn \/ ImgCapUnbound
    \/ ImgReport \/ ImgReportFailed
    \/ VidSourceUnreadable \/ VidNoOp \/ VidStart
    \/ VidNoInfo \/ VidNoStream \/ VidProbeFailed \/ VidProbe
    \/ VidLoopExit \/ VidEncode \/ VidEncodeVanished \/ VidEncodeFailed
    \/ VidCommit \/ VidCommitFailed \/ VidReject
    \/ VidAfterLoop \/ VidCapWarn \/ VidCapUnbound
    \/ VidReport

Spec == Init /\ [][Next]_vars

\* ------------------------------------------------- one image, two outcomes
\* A by-percent run on an image of 1,000,000 bytes whose encoder writes
\* 700,000 or 480,000 bytes. The source is readable and large enough for
\* every resize, so the actions left out of NextEx are never enabled.
ExampleOriginal == 1000000

ExampleSizes == {480000, 700000}

InitEx ==
    /\ fmt \in ImageFormats
    /\ readable = TRUE
    /\ img_size = <<4, 3>>
    /\ enc_sizes = ExampleSizes
    /\ \E o \in {Absent, KB}, t \in {Absent, KB} :
          fs = [p \in Paths |->
                  CASE p = "file" -> ExampleOriginal
                    [] p = "output" -> o
                    [] p = "temp" -> t
                    [] OTHER -> Absent]
    /\ pc = "idle"
    /\ mode = "by-percent" /\ reduction = 0 /\ target_units = 0
    /\ output = "none" /\ max_iterations = 0 /\ video_info = NoInfo
    /\ Fresh
    /\ fs0 = fs /\ runs = 0 /\ prev = NoPrev
    /\ ConcIdle

\* mtool image compress by-percent FILE REDUCTION
InvokeEx == Invoke /\ mode' = "by-percent"

NextEx ==
    \/ InvokeEx
    \/ ImgStart \/ ImgLoopExit \/ ImgEncode \/ ImgEncodeFailed
    \/ PngDownscale \/ ImgMeasureFailed
    \/ ImgCommit \/ ImgReject
    \/ ImgAfterLoop \/ ImgCapWarn \/ ImgCapUnbound
    \/ ImgReport \/ ImgReportFailed

SpecEx == InitEx /\ [][NextEx]_vars

\* ------------------------------------------- two requests at the same time
\* Two by-percent commands of the same kind, with the same reduction and cap
\* and an --output each, run side by side on sources "a" and "b", or both on
\* the same source. Each step is one access to storage: the encoder's write,
\* the size probe, the rename, the remove.
seqVars == <<fs, pc, fmt, readable, img_size, enc_sizes, reqVars, locVars,
             obsVars, histVars>>

InitConc ==
    /\ fmt \in {"jpg", "video"}
    /\ readable = TRUE
    /\ img_size = <<4, 3>>
    /\ enc_sizes = {Unit(fmt), 2 * Unit(fmt)}
    /\ fs = [p \in Paths |-> Absent]
    /\ pc = "idle"
    /\ mode = "by-percent" /\ reduction \in Reductions /\ target_units = 0
    /\ output = "output" /\ max_iterations = SmallCap /\ video_info = NoInfo
    /\ Fresh
    /\ fs0 = fs /\ runs = 0 /\ prev = NoPrev
    /\ c_src \in [Reqs -> Sources]
    /\ c_pc = [r \in Reqs |-> "loop"]
    /\ c_iter = [r \in Reqs |-> 0]
    /\ c_cur = [r \in Reqs |-> 2 * Unit(fmt)]
    /\ c_fs = [p \in CPaths |-> IF p \in Sources THEN 2 * Unit(fmt) ELSE Absent]
    /\ c_by = [p \in CPaths |-> IF p \in Sources THEN 0 ELSE Absent]
    /\ c_hit = {}

\* target_size = original_size * (1 - reduction / 100)
CTarget(r) == PercentTarget(c_fs[c_src[r]], reduction)

\* the loop condition of the image and of the video command
CLoopCond(r) ==
    /\ c_iter[r] < max_iterations
    /\ media = "image" => ~TargetMet(c_cur[r], CTarget(r))

\* the file at path p was written by the other request
Foreign(r, p) == Exists(c_fs, p) /\ c_by[p] \notin {0, r}

Hit(r, p, kind) == IF Foreign(r, p) THEN c_hit \cup {kind} ELSE c_hit

\* img.save(temp_path) / ffmpeg -y ... temp_output
CEncode(r) ==
    /\ c_pc[r] = "loop"
    /\ CLoopCond(r)
    /\ \E s \in enc_sizes : c_fs' = WriteFile(c_fs, TempOf(c_src[r]), s)
    /\ c_by' = WriteFile(c_by, TempOf(c_src[r]), r)
    /\ c_hit' = Hit(r, TempOf(c_src[r]), "overwrite")
    /\ c_pc' = [c_pc EXCEPT ![r] = "measure"]
    /\ UNCHANGED <<seqVars, c_src, c_iter, c_cur>>

\* current_size = os.path.getsize(temp_path), which raises if nothing is
\* there; get_video_size(temp_output), which then gives 0
CMeasure(r) ==
    /\ c_pc[r] = "measure"
    /\ IF Exists(c_fs, TempOf(c_src[r]))
       THEN /\ c_cur' = [c_cur EXCEPT ![r] = c_fs[TempOf(c_src[r])]]
            /\ c_pc' = [c_pc EXCEPT ![r] = "decide"]
       ELSE IF media = "image"
            THEN /\ c_pc' = [c_pc EXCEPT ![r] = "failed"]
                 /\ c_cur' = c_cur
            ELSE /\ c_cur' = [c_cur EXCEPT ![r] = 0]
                 /\ c_pc' = [c_pc EXCEPT ![r] = "decide"]
    /\ c_hit' = Hit(r, TempOf(c_src[r]), "measure")
    /\ UNCHANGED <<seqVars, c_src, c_iter, c_fs, c_by>>

\* current_size <= target_size: os.rename(temp_path, output); break
CCommit(r) ==
    /\ c_pc[r] = "decide"
    /\ TargetMet(c_cur[r], CTarget(r))
    /\ IF Exists(c_fs, TempOf(c_src[r]))
       THEN /\ c_fs' = Rename(c_fs, TempOf(c_src[r]), OutOf(r))
            /\ c_by' = Rename(c_by, TempOf(c_src[r]), OutOf(r))
            /\ c_pc' = [c_pc EXCEPT ![r] = "done"]
       ELSE /\ c_pc' = [c_pc EXCEPT ![r] = "failed"]
            /\ UNCHANGED <<c_fs, c_by>>
    /\ c_hit' = Hit(r, TempOf(c_src[r]), "commit")
    /\ UNCHANGED <<seqVars, c_src, c_iter, c_cur>>

\* the candidate is too large: os.remove(temp_path), iterations += 1
CReject(r) ==
    /\ c_pc[r] = "decide"
    /\ ~TargetMet(c_cur[r], CTarget(r))
    /\ IF Exists(c_fs, TempOf(c_src[r]))
       THEN /\ c_fs' = Remove(c_fs, TempOf(c_src[r]))
            /\ c_by' = Remove(c_by, TempOf(c_src[r]))
            /\ c_iter' = [c_iter EXCEPT ![r] = c_iter[r] + 1]
            /\ c_pc' = [c_pc EXCEPT ![r] = "loop"]
       ELSE /\ c_pc' = [c_pc EXCEPT ![r] = "failed"]
            /\ UNCHANGED <<c_fs, c_by, c_iter>>
    /\ c_hit' = Hit(r, TempOf(c_src[r]), "delete")
    /\ UNCHANGED <<seqVars, c_src, c_cur>>

\* the cap is reached: the warning, and
\* if os.path.exists(temp_path): os.rename(temp_path, output)
CCapReached(r) ==
    /\ c_pc[r] = "loop"
    /\ ~CLoopCond(r)
    /\ IF Exists(c_fs, TempOf(c_src[r]))
       THEN /\ c_fs' = Rename(c_fs, TempOf(c_src[r]), OutOf(r))
            /\ c_by' = Rename(c_by, TempOf(c_src[r]), OutOf(r))
       ELSE UNCHANGED <<c_fs, c_by>>
    /\ c_hit' = Hit(r, TempOf(c_src[r]), "commit")
    /\ c_pc' = [c_pc EXCEPT ![r] = "done"]
    /\ UNCHANGED <<seqVars, c_src, c_iter, c_cur>>

NextConc ==
    \E r \in Reqs :
        \/ CEncode(r) \/ CMeasure(r) \/ CCommit(r) \/ CReject(r)
        \/ CCapReached(r)

SpecConc == InitConc /\ [][NextConc]_vars

\* ================================================================ properties
\* the run got as far as the compression loop
ReachedLoop ==
    /\ ~noop_msg
    /\ err \notin {"SourceUnreadable", "NoVideoInfo", "NoVideoStream",
                 "BitrateError"}

\* the loop ran max_iterations times and rejected every candidate
CapExhausted == warned /\ max_iterations >= 1 /\ iterations = max_iterations

\* C1: when every one of the max_iterations iterations produced a candidate
\* larger than the target, the last candidate is kept and moved to the
\* destination, whose size is then the size of that candidate.
C1_CapCommitsLastCandidate ==
    (/\ pc = "done"
     /\ max_iterations >= 1
     /\ iterations = max_iterations
     /\ codec_calls = max_iterations)
    => (/\ committed = "cap"
        /\ Exists(fs, out_path)
        /\ fs[out_path] = current_size)

\* C2: with a positive cap and an encoder that returns a candidate at every
\* call, a run that reaches the loop makes at most max_iterations encoder
\* calls and ends with a committed artifact within the target or with the
\* cap exhausted.
C2_EndsCommittedOrCapExhausted ==
    (/\ pc = "done"
     /\ max_iterations >= 1
     /\ ReachedLoop
     /\ err \notin {"EncodeFailed", "ResizeFailed", "CandidateLost"})
    => (/\ codec_calls <= max_iterations
        /\ \/ /\ committed = "success"
              /\ Exists(fs, out_path)
              /\ fs[out_path] * Scale <= target_size
           \/ CapExhausted)

\* C3: a measured candidate within the target is moved to the destination in
\* that very iteration and the loop stops; from then on no encoder is called
\* and the destination keeps an artifact within the target.
C3_SuccessCommit ==
    [][/\ (/\ pc = "measure"
           /\ Exists(fs, temp_path)
           /\ fs[temp_path] * Scale <= target_size)
          => (/\ committed' = "success"
              /\ pc' = "after"
              /\ fs'[out_path] = fs[temp_path]
              /\ out_path = (IF output = "none" THEN "file" ELSE "output"))
       /\ (committed = "success" /\ runs' = runs)
          => (/\ codec_calls' = codec_calls
              /\ fs' = fs
              /\ dest_writes' = 1
              /\ Exists(fs, out_path)
              /\ fs[out_path] * Scale <= target_size)]_vars

C3_Witness ==
    /\ pc = "done" /\ runs = 1
    /\ committed = "success"
    /\ output = "output"
    /\ iterations >= 1
    /\ fs["output"] * Scale <= target_size

\* C4: a to-size command on a file no larger than the target probes no
\* metadata, calls no encoder, creates no temporary file, writes nothing to
\* the destination and leaves storage as it found it.
C4_NoOpWhenTargetMet ==
    (/\ runs >= 1
     /\ mode = "to-size"
     /\ fs0["file"] * Scale <= AbsoluteTarget(media, target_units))
    => (/\ pc \in {"start", "done"}
        /\ probe_calls = 0
        /\ codec_calls = 0
        /\ created = {}
        /\ dest_writes = 0
        /\ fs = fs0
        /\ (pc = "done" /\ readable /\ fs0["file"] # 0) => noop_msg)

C4_Witness ==
    /\ pc = "done" /\ runs = 1
    /\ media = "video" /\ mode = "to-size"
    /\ noop_msg
    /\ fs0["file"] = AbsoluteTarget(media, target_units) \div Scale

\* C5: once an encoder call has failed, no encoder is called again, the
\* schedule (quality, bitrate, iteration count) does not advance, nothing is
\* written to the destination and the source stays as it was.
C5_EncodeFailureAborts ==
    [][/\ err' = "EncodeFailed"
          => (/\ dest_writes' = 0
              /\ committed' = "none"
              /\ fs'["file"] = fs0'["file"]
              /\ fs'["output"] = fs0'["output"])
       /\ err = "EncodeFailed"
          => (/\ codec_calls' = codec_calls
              /\ iterations' = iterations
              /\ quality' = quality
              /\ current_bitrate' = current_bitrate
              /\ fs' = fs)]_vars

C5_Witness ==
    /\ pc = "done"
    /\ media = "video"
    /\ err = "EncodeFailed"
    /\ iterations >= 1
    /\ codec_calls = iterations + 1

\* C6: a run that ends in SourceUnreadable or EncodeFailed exits with a
\* non-zero status; a run that ends in success, cap exhaustion or the no-op
\* exits with status zero.
C6_ExitStatus ==
    pc = "done"
    => (/\ err \in {"SourceUnreadable", "EncodeFailed"} => exit_status # 0
        /\ err = "none" => exit_status = 0)

\* C7: when a run has returned in the success or the cap-exhaustion outcome,
\* none of the temporary candidates its encoder wrote is still on storage.
C7_NoLeftoverTemp ==
    (/\ pc = "done"
     /\ committed = "success" \/ CapExhausted)
    => \A p \in created : p \in {"temp", "temp_jpg"} /\ ~Exists(fs, p)

C7_Witness ==
    /\ pc = "done"
    /\ CapExhausted
    /\ iterations >= 2
    /\ created # {}
    /\ err = "none"

\* C8: the destination is written exactly once in a run that ends in success
\* or in cap exhaustion, never more than once, and never in a run that ends
\* in an error or the no-op.
C8_SingleDestinationWrite ==
    /\ dest_writes <= 1
    /\ pc = "done"
       => IF committed = "success" \/ CapExhausted
          THEN dest_writes = 1
          ELSE dest_writes = 0

\* C9: a run whose cap is exhausted ends with the warning and the final-size
\* line and without an error, whether the source is overwritten or an
\* output path that does not exist yet is given.
C9_CapExhaustionNotAnError ==
    (pc = "done" /\ CapExhausted)
    => (/\ warned
        /\ err = "none"
        /\ final_size # NoValue)

\* C10: a to-size command run again, with the same target, on an artifact a
\* to-size run committed within that target takes the no-op return: no
\* encoder call, no probe, storage unchanged.
C10_ToSizeIdempotent ==
    (/\ runs = 2
     /\ prev.valid
     /\ prev.size * Scale <= AbsoluteTarget(media, prev.units))
    => (/\ target_units = prev.units
        /\ fs0["file"] = prev.size
        /\ pc \in {"start", "done"}
        /\ codec_calls = 0
        /\ probe_calls = 0
        /\ fs = fs0
        /\ pc = "done" => (noop_msg /\ err = "none"))

C10_Witness ==
    /\ runs = 2 /\ pc = "done"
    /\ prev.valid
    /\ prev.size = AbsoluteTarget(media, prev.units) \div Scale
    /\ noop_msg

\* C11: the shortfall warning is printed in every run that produced
\* max_iterations candidates, all above the target, and in no other run: not
\* in a run that committed a candidate within the target, even one of the
\* last permitted iteration, and not in a run that stopped short of the cap.
C11_WarningIffCapExhausted ==
    pc \in {"report", "done"}
    => (/\ (/\ max_iterations >= 1
            /\ iterations = max_iterations
            /\ codec_calls = max_iterations) => warned
        /\ committed = "success" => ~warned
        /\ warned => (/\ iterations >= max_iterations
                      /\ codec_calls <= iterations
                      /\ max_iterations >= 1 => iterations = max_iterations
                      /\ committed # "success"))

C11_Witness ==
    /\ pc = "done"
    /\ committed = "success"
    /\ max_iterations >= 2
    /\ iterations = max_iterations - 1
    /\ codec_calls = max_iterations
    /\ ~warned

\* C13: a run whose source size cannot be read ends in SourceUnreadable
\* before any metadata probe and any encoder call; it creates no temporary
\* file, writes nothing to the destination and leaves storage as it was.
C13_SourceUnreadableNoSideEffects ==
    (runs >= 1 /\ (~readable \/ err = "SourceUnreadable"))
    => (/\ pc \in {"start", "done"}
        /\ pc = "done" => err = "SourceUnreadable"
        /\ probe_calls = 0
        /\ codec_calls = 0
        /\ created = {}
        /\ dest_writes = 0
        /\ committed = "none"
        /\ fs = fs0)

C13_Witness ==
    /\ pc = "done"
    /\ ~readable
    /\ err = "SourceUnreadable"
    /\ media = "video"
    /\ output = "output"

\* C15: for a PNG source, the iteration that finds the quality below the
\* floor resizes the image, resets the quality to 95 and still writes and
\* measures a candidate of its own, so that the run does not end in that
\* iteration for want of a candidate or of a valid size.
C15_DownscaleCarriesOn ==
    /\ (fmt = "png" /\ pc = "measure" /\ temp_path = "temp")
       => (/\ quality = InitialQuality
           /\ "temp" \in created
           /\ Exists(fs, "temp"))
    /\ (fmt = "png" /\ pc = "done")
       => err \notin {"NoCandidate", "ResizeFailed"}

\* C16: the first encoder call of an image run is made at quality 95; every
\* rejected candidate lowers the quality by 10 (by-percent) or by 8
\* (to-size), never below 5, which is a strict decrease as long as the
\* quality is above 5; the encoder call itself leaves the quality alone.
C16_QualitySchedule ==
    [][media = "image"
       => (/\ (codec_calls = 0 /\ codec_calls' = 1)
              => (quality = 95 /\ quality' = 95 /\ iterations' = 0)
           /\ (pc = "measure" /\ iterations' = iterations + 1)
              => (/\ mode = "by-percent"
                     => quality' = (IF quality - 10 > 5
                                    THEN quality - 10 ELSE 5)
                  /\ mode = "to-size"
                     => quality' = (IF quality - 8 > 5
                                    THEN quality - 8 ELSE 5)
                  /\ quality > 5 => quality' < quality)
           /\ codec_calls' = codec_calls + 1 => quality' = quality)]_vars

C16_Witness ==
    /\ media = "image" /\ mode = "to-size"
    /\ pc = "measure"
    /\ iterations = 2
    /\ codec_calls = 3
    /\ quality = 79

\* C17 (as stated): the quality passed to the encoder never reaches 5 and
\* never goes below 5.
C17_QualityAboveFloor ==
    (media = "image" /\ pc = "measure") => quality > 5

\* C17 (amended): the quality passed to the encoder never goes below 5; it is
\* above 5 in the first nine iterations (by-percent) or the first twelve
\* (to-size) and, for the formats other than PNG, exactly 5 after those.
C17_QualityAtLeastFloor ==
    (media = "image" /\ pc \in {"loop", "measure"})
    => (/\ quality >= 5
        /\ quality = 5
           => iterations >= (IF mode = "by-percent" THEN 9 ELSE 12)
        /\ (/\ fmt # "png"
            /\ iterations >= (IF mode = "by-percent" THEN 9 ELSE 12))
           => quality = 5)

C17_Witness ==
    /\ media = "image" /\ mode = "to-size"
    /\ pc = "measure"
    /\ quality = 5
    /\ iterations = 12
    /\ codec_calls = 13
    /\ temp_path \in created

\* C18: at every point of a run at most one of the temporary candidates it
\* wrote is on storage, and none is when an iteration starts: the rejected
\* candidate is removed before the encoder is called again.
C18_AtMostOneTemp ==
    /\ Cardinality({p \in created : Exists(fs, p)}) <= 1
    /\ pc = "loop" => \A p \in created : ~Exists(fs, p)

C18_Witness ==
    /\ pc = "measure"
    /\ iterations >= 1
    /\ codec_calls = iterations + 1
    /\ temp_path \in created
    /\ Exists(fs, temp_path)

\* C19 (as stated): when the metadata probe returns nothing, the video run
\* does not abort but goes on to the loop with the bit rate estimated from
\* the size of the source and the default duration.
C19_ProbeFailureFallsBack ==
    (media = "video" /\ probe_calls >= 1 /\ video_info.none)
    => (/\ err # "NoVideoInfo"
        /\ pc \in {"loop", "measure"} /\ iterations = 0
           => current_bitrate = original_size * 8)

\* C19 (amended): when the probe returns nothing the run ends with the
\* error before the loop, without an encoder call and with storage as it
\* was; when the metadata lists a video stream but no bit rate, the run
\* enters the loop with original_size * 8 / duration (duration 1 if it is
\* missing), unless the duration is 0.
C19_ProbeFallback ==
    (media = "video" /\ probe_calls >= 1)
    => (/\ video_info.none
           => (/\ pc = "done" /\ err = "NoVideoInfo"
               /\ codec_calls = 0 /\ created = {} /\ fs = fs0)
        /\ (/\ ~video_info.none /\ video_info.has_video
            /\ video_info.bit_rate = 0)
           => IF video_info.duration = 0
              THEN pc = "done" /\ err = "BitrateError" /\ codec_calls = 0
              ELSE /\ err \notin {"NoVideoInfo", "NoVideoStream", "BitrateError"}
                   /\ (pc \in {"loop", "measure"} /\ iterations = 0)
                      => current_bitrate =
                           (IF video_info.duration = NoValue
                            THEN original_size * 8
                            ELSE (original_size * 8) \div video_info.duration))

C19_Witness ==
    /\ media = "video"
    /\ pc = "measure" /\ iterations = 0
    /\ probe_calls = 1 /\ codec_calls = 1
    /\ ~video_info.none /\ video_info.has_video
    /\ video_info.bit_rate = 0 /\ video_info.duration = 2
    /\ current_bitrate = (original_size * 8) \div 2

\* C20 (as stated): the bit rate requested of the encoder never increases
\* from one iteration to the next and strictly decreases whenever
\* current_bitrate is positive.
C20_BitrateStrictlyDecreasing ==
    [][(/\ media = "video"
        /\ codec_calls >= 1
        /\ codec_calls' = codec_calls + 1)
       => (/\ target_bitrate' <= target_bitrate
           /\ current_bitrate > 0 => target_bitrate' < target_bitrate)]_vars

\* C20 (amended): the requested bit rate is current_bitrate times
\* target_size / original_size, truncated; current_bitrate starts at the
\* original bit rate, becomes 4/5 (by-percent) or 3/4 (to-size) of itself,
\* truncated, at every rejection, and so strictly decreases while positive;
\* the requested bit rate never increases, and strictly decreases as long
\* as it is at least 5.
C20_BitrateSchedule ==
    [][media = "video"
       => (/\ codec_calls' = codec_calls + 1
              => LET g == GCD(100 - reduction, 100)
                     n == IF mode = "by-percent"
                          THEN (100 - reduction) \div g
                          ELSE target_units
                     d == IF mode = "by-percent"
                          THEN 100 \div g
                          ELSE original_size \div MB
                 IN  /\ d * target_bitrate' <= n * current_bitrate
                     /\ n * current_bitrate < d * (target_bitrate' + 1)
                     /\ (codec_calls = 0 /\ video_info.bit_rate # 0)
                        => current_bitrate = video_info.bit_rate
                     /\ codec_calls >= 1
                        => (/\ target_bitrate' <= target_bitrate
                            /\ target_bitrate >= 5
                               => target_bitrate' < target_bitrate)
           /\ iterations' = iterations + 1
              => (/\ mode = "by-percent"
                     => current_bitrate' = (current_bitrate * 4) \div 5
                  /\ mode = "to-size"
                     => current_bitrate' = (current_bitrate * 3) \div 4
                  /\ current_bitrate > 0
                     => current_bitrate' < current_bitrate))]_vars

C20_Witness ==
    /\ media = "video" /\ mode = "by-percent"
    /\ pc = "measure"
    /\ codec_calls = 3 /\ iterations = 2
    /\ current_bitrate = 2
    /\ target_bitrate = 1

\* C12: an image of 1,000,000 bytes compressed by 50 percent has the target
\* 500,000; a first candidate of 700,000 bytes, encoded at quality 95, is
\* rejected; a second of 480,000 bytes, encoded at quality 85, is committed,
\* after two encoder calls in all, and the reduction reported is 52.0.
C12_WorkedExample ==
    (runs = 1 /\ reduction = 50 /\ pc # "start")
    => (/\ original_size = 1000000
        /\ target_size = 500000 * Scale
        /\ (pc = "measure" /\ iterations = 0) => quality = 95
        /\ (pc = "measure" /\ iterations = 0 /\ fs[temp_path] = 700000)
           => ~ENABLED ImgCommit
        /\ (pc \in {"loop", "measure"} /\ iterations = 1)
           => (/\ current_size = 700000
               /\ quality = 85
               /\ codec_calls = (IF pc = "loop" THEN 1 ELSE 2))
        /\ (pc \in {"after", "report", "done"} /\ iterations = 1
            /\ codec_calls = 2 /\ err = "none")
           => (/\ committed = "success"
               /\ current_size = 480000
               /\ quality = 85
               /\ dest_writes = 1
               /\ fs[out_path] = 480000
               /\ ~warned
               /\ pc = "done"
                  => final_size = 480000 /\ actual_reduction = 520))

C12_Witness ==
    /\ pc = "done" /\ reduction = 50
    /\ original_size = 1000000
    /\ iterations = 1 /\ codec_calls = 2
    /\ committed = "success"
    /\ final_size = 480000
    /\ actual_reduction = 520

\* C14: of two requests running at the same time, on different sources or on
\* the same one, neither works on a temporary path the other works on, so
\* neither overwrites, measures, deletes or commits a candidate the other
\* has written: no request loses its candidate, and what a request commits
\* is a candidate of its own.
C14_TempPathOwnership ==
    /\ c_hit = {}
    /\ \A r \in Reqs :
          /\ c_pc[r] # "failed"
          /\ Exists(c_fs, OutOf(r)) => c_by[OutOf(r)] = r

\* C21: when the metadata lists a video stream and carries no bit rate, the
\* run takes the integer part of original_size * 8 / duration (duration 1
\* if it is missing) as its starting bit rate and enters the loop; the step
\* raises no error, whatever the metadata.
C21_EstimateNeverFails ==
    (/\ media = "video" /\ probe_calls >= 1
     /\ ~video_info.none /\ video_info.has_video)
    => (/\ err # "BitrateError"
        /\ (/\ video_info.bit_rate = 0
            /\ pc \in {"loop", "measure"} /\ iterations = 0)
           => current_bitrate * (IF video_info.duration = NoValue
                                 THEN 1 ELSE video_info.duration)
                <= original_size * 8)

\* C22: when the metadata lists no stream of type "video", the video run
\* ends with the error before the loop: no encoder call, no temporary file,
\* no write to the destination, storage as it was; otherwise the stream
\* kept is the first one of type "video".
C22_MissingVideoStream ==
    (media = "video" /\ probe_calls >= 1 /\ ~video_info.none)
    => IF \A i \in DOMAIN video_info.streams :
             video_info.streams[i] # "video"
       THEN /\ pc = "done" /\ err = "NoVideoStream"
            /\ video_stream = 0
            /\ codec_calls = 0 /\ created = {}
            /\ dest_writes = 0 /\ committed = "none"
            /\ fs = fs0
       ELSE /\ err # "NoVideoStream"
            /\ video_stream \in DOMAIN video_info.streams
            /\ video_info.streams[video_stream] = "video"
            /\ \A j \in 1 .. video_stream - 1 :
                  video_info.streams[j] # "video"

C22_Witness ==
    /\ media = "video"
    /\ pc = "done" /\ err = "NoVideoStream"
    /\ video_info.streams = <<"audio">>
    /\ output = "output" /\ ~Exists(fs, "output")

\* C23: in a video run, a candidate whose size cannot be read is measured as
\* 0 bytes; the comparison with the target then succeeds, the candidate is
\* not rejected and no warning is printed: the success branch is taken and
\* the rename is attempted, which is where the run fails.
C23_ProbeFailureReadsAsZero ==
    [][(/\ media = "video"
        /\ pc = "measure"
        /\ ~Exists(fs, "temp"))
       => (/\ current_size' = 0
           /\ TargetMet(current_size', target_size)
           /\ iterations' = iterations
           /\ current_bitrate' = current_bitrate
           /\ ~warned'
           /\ err' = "CandidateLost"
           /\ pc' = "done"
           /\ fs' = fs)]_vars

C23_Witness ==
    /\ media = "video"
    /\ pc = "done"
    /\ err = "CandidateLost"
    /\ current_size = 0
    /\ codec_calls = iterations + 1
    /\ committed = "none"

\* C24: when a run has ended because an encoder call failed, none of the
\* temporary files its encoder wrote, in full or in part, is on storage.
C24_NoTempAfterEncodeFailure ==
    (pc = "done" /\ err = "EncodeFailed")
    => \A p \in created : ~Exists(fs, p)

\* C25: in a run with a positive cap the iteration counter is 0 when the
\* loop is entered, changes only by +1 and only when a measured candidate
\* is rejected, and stays between 0 and the cap; original_size and
\* target_size keep the values computed before the loop; in by-percent the
\* target is below the original size, which is positive.
C25_LoopState ==
    [][max_iterations' >= 1
       => (/\ (pc \in {"start", "probe"} /\ pc' = "loop")
              => iterations' = 0
           /\ pc' \in {"loop", "measure", "after", "report"}
              => (/\ 0 <= iterations' /\ iterations' <= max_iterations'
                  /\ mode' = "by-percent"
                     => (/\ original_size' > 0
                         /\ target_size' < original_size' * Scale))
           /\ (pc \in {"probe", "loop", "measure", "after", "report"}
               /\ runs' = runs)
              => (/\ original_size' = original_size
                  /\ target_size' = target_size
                  /\ pc # "probe"
                     => iterations' \in {iterations, iterations + 1}
                  /\ iterations' = iterations + 1
                     => (/\ pc = "measure" /\ pc' = "loop"
                         /\ ~TargetMet(current_size', target_size))))]_vars

C25_Witness ==
    /\ pc = "loop"
    /\ media = "video" /\ mode = "by-percent"
    /\ max_iterations >= 2
    /\ iterations = max_iterations
    /\ target_size < original_size * Scale

\* C26: in a run given an --output other than the source, the source file
\* is there, with the size it had, at every point of the run and whatever
\* its outcome; a step changes storage at the temporary paths and at the
\* output path only.
C26_SourceUntouched ==
    [][(runs' = 1 /\ output' = "output")
       => (/\ fs'["file"] = fs0'["file"]
           /\ Exists(fs', "file")
           /\ \A p \in Paths :
                 fs'[p] # fs[p] => p \in {"temp", "temp_jpg", "output"})]_vars

C26_Witness ==
    /\ pc = "done" /\ runs = 1
    /\ output = "output"
    /\ committed = "success"
    /\ fs["output"] # fs0["output"]
    /\ fs["file"] = fs0["file"]

\* C27: a file that is measured as the candidate, or moved to the
\* destination, was written at that temporary path by an encoder call of
\* this run; a file that was at the temporary path before the run began is
\* neither measured nor moved.
C27_CandidateProvenance ==
    [][(/\ pc = "measure"
        /\ \/ current_size' # current_size
           \/ dest_writes' # dest_writes
           \/ fs' # fs)
       => temp_path \in created]_vars

\* C28: when a run has printed a final size, a file is at the destination
\* path and the size printed is its size, and no error was printed before
\* it: no final size of 0 for an --output that was never written, and no
\* final report after an encoder failure.
C28_FaithfulReport ==
    final_size # NoValue
       => (/\ Exists(fs, out_path)
           /\ final_size = fs[out_path]
           /\ err = "none")

\* C29: every encoder call of the video loop is given a positive target
\* bitrate, so that the -b:v flag is on its command line; the target
\* bitrate does not become 0 by decay or from a small starting bitrate.
C29_BitrateFlagPresent ==
    (media = "video" /\ codec_calls > 0)
       => (target_bitrate > 0 /\ BitrateFlag(target_bitrate))

\* C30: with --max-iterations 0 or less and a target below the original
\* size, the run calls the encoder zero times, writes nothing to the
\* destination and ends its cap handling without an error.
C30_NonPositiveCap ==
    (/\ pc = "done"
     /\ max_iterations <= 0
     /\ ReachedLoop
     /\ ~TargetMet(original_size, target_size))
       => (/\ codec_calls = 0
           /\ dest_writes = 0
           /\ err = "none")

====
